---- MODULE Spec2Model ----
(***************************************************************************)
(* State-machine model of binviewer.py (HYPERNETS binary viewer): the      *)
(* MainWindow slots that list sequence files, split a .spe file into       *)
(* length-prefixed chunks, decode them into spectra and plot one of them.  *)
(*                                                                         *)
(* A Qt slot runs to completion on the GUI thread; the variable pc holds   *)
(* the position of the one slot that contains a loop (the chunk loop of    *)
(* on_sequenceList_currentChanged), and every other slot is enabled only   *)
(* while pc = "idle".                                                      *)
(***************************************************************************)
EXTENDS Integers, Sequences, FiniteSets, TLC

\* ------------------------------------------------------------ bounds
\* Longest byte buffer drawn as the content of a sequence file.
MaxLen == 8
\* Cap on the records one load may accumulate (never reached by the loop
\* as written: every record consumes at least HeaderSize bytes).
MaxRecords == 4

\* Byte values the drawn buffers are made of: lengths 0 and 1 (malformed),
\* 4 (header only) and 6 (header and one sample); 1 as a high byte gives a
\* length of 256 and more, which overshoots every buffer.
ByteVals == {0, 1, 4, 6}

Buffers == UNION {[1..n -> ByteVals] : n \in 0..MaxLen}

\* ------------------------------------------------------------ python helpers
Min(a, b) == IF a < b THEN a ELSE b

\* raw[a:b] for 0 <= a, 0 <= b: python clamps both ends to the buffer.
Slice(s, a, b) == SubSeq(s, Min(a, Len(s)) + 1, Min(b, Len(s)))

\* Variant of Unpack: a single remaining byte is read as a length on its own.
UnpackPadsMissing(b) ==
    IF Len(b) = 2 THEN [ok |-> TRUE, value |-> b[1] + 256 * b[2]]
    ELSE IF Len(b) = 1 THEN [ok |-> TRUE, value |-> b[1]]
    ELSE [ok |-> FALSE, value |-> 0]

\* struct.unpack('<H', b)[0]: an unsigned little-endian 16-bit integer from
\* exactly two bytes; struct.error ("unpack requires a buffer of 2 bytes")
\* for any other length.
Unpack(b) ==
    IF Len(b) = 2 THEN [ok |-> TRUE, value |-> b[1] + 256 * b[2]]
    ELSE [ok |-> FALSE, value |-> 0]

\* ------------------------------------------------------------ spectrum module
\* Spectrum.parse_raw and Radiometer are imported from spectrum.py (binviewer.py
\* line 23); they follow the decoder contract of the design: a fixed header (the
\* 2-byte length prefix, one spectrum-type code, one pixel count) followed by
\* pixel_count little-endian 16-bit samples.  A chunk shorter than the header,
\* or than the header and its samples, is InsufficientBytes; an unrecognised
\* radiometer code is UnknownEnumValue.  The header is scaled down to the
\* fields the slots read (the instrument's header is 40 bytes long and carries
\* the timestamp, exposure, temperature and acceleration fields as well).
HeaderSize == 4

RadiometerOfCode(c) ==
    CASE c = 1 -> "VIS"
      [] c = 4 -> "SWIR"
      [] c = 6 -> "BOTH"
      [] OTHER -> "unknown"

NoSpectrum == [radiometer |-> "none", pixel_count |-> 0, body |-> <<>>]

ParseRaw(chunk) ==
    IF Len(chunk) < HeaderSize
    THEN [ok |-> FALSE, error |-> "InsufficientBytes", spectrum |-> NoSpectrum]
    ELSE IF RadiometerOfCode(chunk[3]) = "unknown"
    THEN [ok |-> FALSE, error |-> "UnknownEnumValue", spectrum |-> NoSpectrum]
    ELSE IF Len(chunk) < HeaderSize + 2 * chunk[4]
    THEN [ok |-> FALSE, error |-> "InsufficientBytes", spectrum |-> NoSpectrum]
    ELSE [ok |-> TRUE, error |-> "none",
          spectrum |-> [radiometer |-> RadiometerOfCode(chunk[3]),
                        pixel_count |-> chunk[4],
                        body |-> [i \in 1..chunk[4] |->
                                    chunk[HeaderSize + 2 * i - 1]
                                    + 256 * chunk[HeaderSize + 2 * i]]]]

\* ------------------------------------------------------------ file names
\* A file name is a tuple of one-character strings, so that fnmatch, str.find
\* and str.split act on its characters.
Chars == <<".", "1", "2", "3", "4", "_", "a", "b", "c", "e", "g", "j", "p", "s", "t", "x">>

Ord(c) == CHOOSE i \in 1..Len(Chars) : Chars[i] = c

RECURSIVE NameLess(_, _)
\* python's str "<": lexicographic by code point, a proper prefix is smaller.
NameLess(a, b) ==
    IF b = <<>> THEN FALSE
    ELSE IF a = <<>> THEN TRUE
    ELSE IF Head(a) # Head(b) THEN Ord(Head(a)) < Ord(Head(b))
    ELSE NameLess(Tail(a), Tail(b))

RECURSIVE Insert(_, _)
Insert(sorted, x) ==
    IF sorted = <<>> THEN <<x>>
    ELSE IF NameLess(x, Head(sorted)) THEN <<x>> \o sorted
    ELSE <<Head(sorted)>> \o Insert(Tail(sorted), x)

RECURSIVE Sort(_)
\* list.sort() on a list of names.
Sort(lst) == IF lst = <<>> THEN <<>> ELSE Insert(Sort(Tail(lst)), Head(lst))

EndsWith(name, suffix) ==
    /\ Len(name) >= Len(suffix)
    /\ SubSeq(name, Len(name) - Len(suffix) + 1, Len(name)) = suffix

Contains(name, sub) ==
    \E i \in 1..(Len(name) - Len(sub) + 1) : SubSeq(name, i, i + Len(sub) - 1) = sub

SpeSuffix == <<".", "s", "p", "e">>
JpgSuffix == <<".", "j", "p", "g">>
JpgWord == <<"j", "p", "g">>

\* fnmatch.filter(lst, "*.spe") and fnmatch.filter(lst, "*.jpg"): the names
\* that end with the suffix, in the order of lst.
FnmatchFilter(lst, suffix) == SelectSeq(lst, LAMBDA n : EndsWith(n, suffix))

\* self.selected_seq_name.find("jpg") != -1
IsImageName(name) == Contains(name, JpgWord)

RECURSIVE SplitUnderscore(_)
\* name.split("_")
SplitUnderscore(name) ==
    IF \A i \in 1..Len(name) : name[i] # "_" THEN <<name>>
    ELSE LET k == CHOOSE i \in 1..Len(name) :
                      name[i] = "_" /\ \A j \in 1..(i - 1) : name[j] # "_"
         IN <<SubSeq(name, 1, k - 1)>> \o SplitUnderscore(SubSeq(name, k + 1, Len(name)))

\* ------------------------------------------------------------ the file system
\* The folders of the tree and the files of their RADIOMETER directories:
\* bytes is the content, image says whether matplotlib.image.imread accepts it.
A1spe == <<"a", "_", "1", ".", "s", "p", "e">>
A2spe == <<"a", "_", "2", ".", "s", "p", "e">>
A3jpg == <<"a", "_", "3", ".", "j", "p", "g">>
A4txt == <<"a", "_", "4", ".", "t", "x", "t">>
B2spe == <<"b", "_", "2", ".", "s", "p", "e">>
B3jpg == <<"b", "_", "3", ".", "j", "p", "g">>
Jpg1spe == <<"j", "p", "g", "_", "1", ".", "s", "p", "e">>
C1txt == <<"c", "_", "1", ".", "t", "x", "t">>

Folders == {"A", "B", "C", "D"}

Disk ==
    [f \in Folders |->
        CASE f = "A" ->
                {[name |-> A1spe, bytes |-> <<4, 0, 1, 0, 6, 0, 6, 1, 7, 0>>, image |-> FALSE],
                 [name |-> A2spe, bytes |-> <<>>, image |-> FALSE],
                 [name |-> A3jpg, bytes |-> <<255, 216, 255>>, image |-> TRUE],
                 [name |-> A4txt, bytes |-> <<1>>, image |-> FALSE]}
          [] f = "B" ->
                {[name |-> B2spe, bytes |-> <<6, 0, 4, 1, 9, 0, 1>>, image |-> FALSE],
                 [name |-> B3jpg, bytes |-> <<>>, image |-> FALSE],
                 [name |-> Jpg1spe, bytes |-> <<4, 0, 4, 0>>, image |-> FALSE]}
          [] f = "C" -> {[name |-> C1txt, bytes |-> <<1>>, image |-> FALSE]}
          [] OTHER -> {}]

\* Folders that hold a RADIOMETER directory (os.listdir raises for the others).
HasRadiometerDir(f) == f \in {"A", "B", "C"}

RECURSIVE SetToSeq(_)
SetToSeq(S) ==
    IF S = {} THEN <<>> ELSE LET x == CHOOSE y \in S : TRUE IN <<x>> \o SetToSeq(S \ {x})

\* os.listdir(self.spectra_path): the names, in no particular order.
Listdir(f) == SetToSeq({e.name : e \in Disk[f]})

\* Whether open() and os.stat() find the file, and the file they find.
FileExists(f, name) == \E e \in Disk[f] : e.name = name

FileAt(f, name) == CHOOSE e \in Disk[f] : e.name = name

\* ------------------------------------------------------------ state
VARIABLES
    pc,                       \* "idle", "loop" (inside the chunk loop), "aborted"
    selected_seq_filename,    \* self.selected_seq_filename: the folder's name
    spectra_path,             \* self.spectra_path: the folder whose RADIOMETER is listed
    sequenceList,             \* self.sequenceList
    seriesCurrent,            \* row of the current index of seriesList, -1 if invalid
    selected_seq_name,        \* self.selected_seq_name
    spectraListModel,         \* rows of self.spectraListModel
    spectraCurrent,           \* row of the current index of spectraListView, -1 if invalid
    raw,                      \* raw: the bytes read from the sequence file
    byte_pointer,             \* byte_pointer
    spectra_list,             \* self.spectra_list
    plotted_spec,             \* self.plotted_spec
    plotted_spectrum_number,  \* self.plotted_spectrum_number
    wlScale_checked,          \* self.wlScale.isChecked()
    wlScale_enabled,          \* self.wlScale.isEnabled()
    saveButton_enabled,       \* self.saveButton.isEnabled()
    canvas,                   \* what self.canvas.axes holds
    save_default,             \* the default name last offered by the save dialog
    branch,                   \* the branch the last sequence selection took
    handed,                   \* the chunk bodies handed to Spectrum.parse_raw by this load
    list_src,                 \* the file whose load created the list object self.spectra_list
    plotted_src,              \* the file whose load created the object self.plotted_spec
    selected_file,            \* the file the last sequence selection joined from path and name
    err                       \* the exception that ended the last slot, or "none"

vars == <<pc, selected_seq_filename, spectra_path, sequenceList, seriesCurrent,
          selected_seq_name, spectraListModel, spectraCurrent, raw, byte_pointer,
          spectra_list, plotted_spec, plotted_spectrum_number, wlScale_checked,
          wlScale_enabled, saveButton_enabled, canvas, save_default, branch,
          handed, list_src, plotted_src, selected_file, err>>

NoFile == <<"", <<>>>>
\* The axes after cla() and axis('off'), and after imshow(img).
BlankCanvas ==
    [kind |-> "blank", coefs |-> "none", x |-> <<>>, xlabel |-> "", spectrum |-> NoSpectrum]

ImageCanvas ==
    [kind |-> "image", coefs |-> "none", x |-> <<>>, xlabel |-> "", spectrum |-> NoSpectrum]

\* The window after __init__: no folder selected, nothing loaded or plotted,
\* the checkbox and the save button not yet enabled (the slots below are the
\* only code that enables them).
Init ==
    /\ pc = "idle"
    /\ selected_seq_filename = ""
    /\ spectra_path = ""
    /\ sequenceList = <<>>
    /\ seriesCurrent = -1
    /\ selected_seq_name = <<>>
    /\ spectraListModel = <<>>
    /\ spectraCurrent = -1
    /\ raw = <<>>
    /\ byte_pointer = 0
    /\ spectra_list = <<>>
    /\ plotted_spec = NoSpectrum
    /\ plotted_spectrum_number = 0
    /\ wlScale_checked = FALSE
    /\ wlScale_enabled = FALSE
    /\ saveButton_enabled = FALSE
    /\ canvas = BlankCanvas
    /\ save_default = <<>>
    /\ branch = "none"
    /\ handed = <<>>
    /\ list_src = NoFile
    /\ plotted_src = NoFile
    /\ selected_file = NoFile
    /\ err = "none"

\* An exception leaves a slot: PyQt5 either prints the traceback and returns to
\* the event loop or aborts the process (qFatal), depending on its version and
\* on sys.excepthook; the attributes assigned so far keep their values.
Raise(e) ==
    /\ err' = e
    /\ pc' \in {"idle", "aborted"}

\* ------------------------------------------------------------ plotting
\* range(pixel_count)
Range(n) == [i \in 1..n |-> i - 1]

\* px2wl(px, coefs): numpy.poly1d(coefs) applied to every pixel index; a value
\* is kept as the term "polynomial of this coefficient vector at this pixel".
px2wl(px, coefs) == [i \in 1..Len(px) |-> [poly |-> coefs, at |-> px[i]]]

\* plot_spectrum: what the axes hold afterwards.
PlotSpectrum(spec, checked) ==
    IF checked
    THEN IF spec.radiometer = "VIS"
         THEN [kind |-> "spectrum", coefs |-> "wlcoefs_v",
               x |-> px2wl(Range(spec.pixel_count), "wlcoefs_v"),
               xlabel |-> "Wavelength, nm", spectrum |-> spec]
         ELSE [kind |-> "spectrum", coefs |-> "wlcoefs_s",
               x |-> px2wl(Range(spec.pixel_count), "wlcoefs_s"),
               xlabel |-> "Wavelength, nm", spectrum |-> spec]
    ELSE [kind |-> "spectrum", coefs |-> "none", x |-> Range(spec.pixel_count),
          xlabel |-> "Pixel number", spectrum |-> spec]

\* on_spectrumList_currentChanged(index) with index.row() = row: plots
\* spectra_list[row] and enables the controls.
SpectrumChanged(row) ==
    /\ plotted_spec' = spectra_list[row + 1]
    /\ plotted_src' = list_src
    /\ canvas' = PlotSpectrum(spectra_list[row + 1], wlScale_checked)
    /\ wlScale_enabled' = TRUE
    /\ saveButton_enabled' = TRUE
    /\ plotted_spectrum_number' = row + 1
    /\ spectraCurrent' = row

\* The user makes another row of the spectra list current.
SelectSpectrum(row) ==
    /\ pc = "idle"
    /\ row \in 0..(Len(spectraListModel) - 1)
    /\ row # spectraCurrent
    /\ SpectrumChanged(row)
    /\ err' = "none"
    /\ UNCHANGED <<pc, selected_seq_filename, spectra_path, sequenceList, seriesCurrent,
                   selected_seq_name, spectraListModel, raw, byte_pointer, spectra_list,
                   wlScale_checked, save_default, branch, handed, list_src,
                   selected_file>>

\* on_wlScale_stateChanged: the user toggles the wavelength-scale checkbox.
ToggleWlScale ==
    /\ pc = "idle"
    /\ wlScale_enabled
    /\ wlScale_checked' = ~wlScale_checked
    /\ canvas' = PlotSpectrum(plotted_spec, ~wlScale_checked)
    /\ err' = "none"
    /\ UNCHANGED <<pc, selected_seq_filename, spectra_path, sequenceList, seriesCurrent,
                   selected_seq_name, spectraListModel, spectraCurrent, raw, byte_pointer,
                   spectra_list, plotted_spec, plotted_spectrum_number, wlScale_enabled,
                   saveButton_enabled, save_default, branch, handed, list_src, plotted_src,
                   selected_file>>

\* The default file name on_saveButton_clicked offers.
SaveName(folder, seq_name, number) == <<folder, SplitUnderscore(seq_name)[2], number>>

\* on_saveButton_clicked: the dialog opens with the default name.
SaveButtonClicked ==
    /\ pc = "idle"
    /\ saveButton_enabled
    /\ IF Len(SplitUnderscore(selected_seq_name)) < 2
       THEN Raise("IndexError") /\ UNCHANGED save_default
       ELSE /\ save_default' = SaveName(selected_seq_filename, selected_seq_name,
                                        plotted_spectrum_number)
            /\ err' = "none"
            /\ UNCHANGED pc
    /\ UNCHANGED <<selected_seq_filename, spectra_path, sequenceList, seriesCurrent,
                   selected_seq_name, spectraListModel, spectraCurrent, raw, byte_pointer,
                   spectra_list, plotted_spec, plotted_spectrum_number, wlScale_checked,
                   wlScale_enabled, saveButton_enabled, canvas, branch, handed, list_src,
                   plotted_src, selected_file>>

\* ------------------------------------------------------------ sequence selection
\* The row text of the spectra list: str(i + 1) and the record's names.
RowLabel(number, spec) == [number |-> number, radiometer |-> spec.radiometer]

\* on_sequenceList_currentChanged(index) with index.row() = row, up to the
\* entry of the chunk loop (lines 236-276); it sets everything but the folder,
\* the sequence list and its current row, which its callers set.
SequenceChanged(folder, lst, row) ==
    LET name == lst[row + 1]
        file == FileAt(folder, name)
    IN  /\ selected_seq_name' = name
        /\ selected_file' = <<folder, name>>
        /\ spectraListModel' = <<>>
        /\ spectraCurrent' = -1
        /\ IF IsImageName(name)
           THEN /\ branch' = "image"
                /\ wlScale_enabled' = FALSE
                /\ saveButton_enabled' = FALSE
                /\ IF ~FileExists(folder, name)
                   THEN canvas' = BlankCanvas /\ Raise("FileNotFoundError")
                   ELSE IF Len(file.bytes) = 0
                   THEN canvas' = BlankCanvas /\ err' = "none" /\ pc' = "idle"
                   ELSE IF file.image
                   THEN canvas' = ImageCanvas /\ err' = "none" /\ pc' = "idle"
                   ELSE canvas' = BlankCanvas /\ Raise("UnidentifiedImageError")
                /\ UNCHANGED <<raw, byte_pointer, spectra_list, handed, list_src>>
           ELSE /\ branch' = "spectra"
                /\ IF ~FileExists(folder, name)
                   THEN /\ Raise("FileNotFoundError")
                        /\ UNCHANGED <<raw, byte_pointer, spectra_list, handed, list_src>>
                   ELSE /\ raw' = file.bytes
                        /\ byte_pointer' = 0
                        /\ spectra_list' = <<>>
                        /\ list_src' = <<folder, name>>
                        /\ handed' = <<>>
                        /\ pc' = "loop"
                        /\ err' = "none"
                /\ UNCHANGED <<wlScale_enabled, saveButton_enabled, canvas>>
        /\ UNCHANGED <<plotted_spec, plotted_spectrum_number, plotted_src,
                       wlScale_checked, save_default>>

\* The list on_filesystemTree_currentChanged builds (lines 220-223).
SequenceListOf(f) ==
    LET lst == Sort(Listdir(f))
    IN  Sort(FnmatchFilter(lst, SpeSuffix) \o FnmatchFilter(lst, JpgSuffix))

\* on_filesystemTree_currentChanged: the user makes folder f current, or clicks
\* the folder that is current already (eventFilter); setCurrentIndex on the
\* first row runs on_sequenceList_currentChanged when the list has a row.
SelectFolder(f) ==
    /\ pc = "idle"
    /\ selected_seq_filename' = f
    /\ spectra_path' = f
    /\ IF ~HasRadiometerDir(f)
       THEN /\ Raise("FileNotFoundError")
            /\ UNCHANGED <<sequenceList, seriesCurrent, selected_seq_name, spectraListModel,
                           spectraCurrent, raw, byte_pointer, spectra_list, plotted_spec,
                           plotted_spectrum_number, wlScale_checked, wlScale_enabled,
                           saveButton_enabled, canvas, save_default, branch, handed,
                           list_src, plotted_src, selected_file>>
       ELSE /\ sequenceList' = SequenceListOf(f)
            /\ IF SequenceListOf(f) = <<>>
               THEN /\ seriesCurrent' = -1
                    /\ err' = "none"
                    /\ UNCHANGED <<pc, selected_seq_name, spectraListModel, spectraCurrent,
                                   raw, byte_pointer, spectra_list, plotted_spec,
                                   plotted_spectrum_number, wlScale_checked,
                                   wlScale_enabled, saveButton_enabled, canvas,
                                   save_default, branch, handed, list_src, plotted_src,
                                   selected_file>>
               ELSE /\ seriesCurrent' = 0
                    /\ SequenceChanged(f, SequenceListOf(f), 0)

\* The user makes another row of the sequence list current.
SelectSequence(row) ==
    /\ pc = "idle"
    /\ row \in 0..(Len(sequenceList) - 1)
    /\ row # seriesCurrent
    /\ seriesCurrent' = row
    /\ SequenceChanged(spectra_path, sequenceList, row)
    /\ UNCHANGED <<selected_seq_filename, spectra_path, sequenceList>>

\* ------------------------------------------------------------ the chunk loop
\* while filesize - byte_pointer:
LoopCondition(filesize, bp) == filesize - bp # 0

\* chunk_body = raw[byte_pointer:byte_pointer+chunk_size]
ChunkBody(buf, bp, chunk_size) == Slice(buf, bp, bp + chunk_size)

\* Variants of the pointer update: one that does not advance, one that skips
\* two bytes too many.
NextPointerStays(bp, chunk_size) == bp

NextPointerSkipsTwo(bp, chunk_size) == bp + chunk_size + 2

\* byte_pointer += chunk_size
NextPointer(bp, chunk_size) == bp + chunk_size

\* Variant of the accumulation: insert(0, spectrum) in place of append.
PrependSpectrum(lst, spectrum) == <<spectrum>> \o lst

\* self.spectra_list.append(spectrum)
AppendSpectrum(lst, spectrum) == Append(lst, spectrum)

\* One pass of the loop body (lines 278-283).
LoopIter ==
    /\ pc = "loop"
    /\ LoopCondition(Len(raw), byte_pointer)
    /\ Len(spectra_list) < MaxRecords
    /\ LET size == Unpack(Slice(raw, byte_pointer, byte_pointer + 2))
           body == ChunkBody(raw, byte_pointer, size.value)
           parsed == ParseRaw(body)
       IN  IF ~size.ok
           THEN /\ Raise("struct.error")
                /\ UNCHANGED <<byte_pointer, spectra_list, handed>>
           ELSE /\ handed' = Append(handed, [cursor |-> byte_pointer,
                                             chunk_size |-> size.value, body |-> body])
                /\ IF ~parsed.ok
                   THEN /\ Raise(parsed.error)
                        /\ UNCHANGED <<byte_pointer, spectra_list>>
                   ELSE /\ byte_pointer' = NextPointer(byte_pointer, size.value)
                        /\ spectra_list' = AppendSpectrum(spectra_list, parsed.spectrum)
                        /\ UNCHANGED <<pc, err>>
    /\ UNCHANGED <<selected_seq_filename, spectra_path, sequenceList, seriesCurrent,
                   selected_seq_name, spectraListModel, spectraCurrent, raw, plotted_spec,
                   plotted_spectrum_number, wlScale_checked, wlScale_enabled,
                   saveButton_enabled, canvas, save_default, branch, list_src, plotted_src,
                   selected_file>>

\* The loop ends: the spectra list is filled and its first row made current
\* (lines 285-292), which plots the first spectrum when there is one.
LoopExit ==
    /\ pc = "loop"
    /\ ~LoopCondition(Len(raw), byte_pointer)
    /\ spectraListModel' = [i \in 1..Len(spectra_list) |-> RowLabel(i, spectra_list[i])]
    /\ IF Len(spectra_list) > 0
       THEN SpectrumChanged(0)
       ELSE UNCHANGED <<plotted_spec, plotted_src, canvas, wlScale_enabled,
                        saveButton_enabled, plotted_spectrum_number, spectraCurrent>>
    /\ pc' = "idle"
    /\ err' = "none"
    /\ UNCHANGED <<selected_seq_filename, spectra_path, sequenceList, seriesCurrent,
                   selected_seq_name, raw, byte_pointer, spectra_list, wlScale_checked,
                   save_default, branch, handed, list_src, selected_file>>

\* ------------------------------------------------------------ specifications
\* The whole window: every slot, over the folders of Disk.
Next ==
    \/ \E f \in Folders : SelectFolder(f)
    \/ \E row \in 0..(Len(sequenceList) - 1) : SelectSequence(row)
    \/ LoopIter
    \/ LoopExit
    \/ \E row \in 0..(Len(spectraListModel) - 1) : SelectSpectrum(row)
    \/ ToggleWlScale
    \/ SaveButtonClicked

Spec == Init /\ [][Next]_vars

\* One load: a fresh window in which the first sequence file of a folder has
\* just been opened and read, its content being any buffer of Buffers.
LoadInit ==
    /\ pc = "loop"
    /\ selected_seq_filename = "A"
    /\ spectra_path = "A"
    /\ sequenceList = <<A1spe>>
    /\ seriesCurrent = 0
    /\ selected_seq_name = A1spe
    /\ spectraListModel = <<>>
    /\ spectraCurrent = -1
    /\ raw \in Buffers
    /\ byte_pointer = 0
    /\ spectra_list = <<>>
    /\ plotted_spec = NoSpectrum
    /\ plotted_spectrum_number = 0
    /\ wlScale_checked = FALSE
    /\ wlScale_enabled = FALSE
    /\ saveButton_enabled = FALSE
    /\ canvas = BlankCanvas
    /\ save_default = <<>>
    /\ branch = "spectra"
    /\ handed = <<>>
    /\ list_src = <<"A", A1spe>>
    /\ plotted_src = NoFile
    /\ selected_file = <<"A", A1spe>>
    /\ err = "none"

LoadNext ==
    \/ LoopIter
    \/ LoopExit
    \/ \E row \in 0..(Len(spectraListModel) - 1) : SelectSpectrum(row)

LoadSpec == LoadInit /\ [][LoadNext]_vars

\* The interpreter keeps running the loop of a slot it has entered.
LiveLoadSpec == LoadSpec /\ WF_vars(LoopIter) /\ WF_vars(LoopExit)

\* ------------------------------------------------------------ the chunk format
\* The splitting the design states for ChunkSplitter, as a function of the
\* buffer alone: the spans <<cursor, n>> up to the first error, and that error.
RECURSIVE SplitFrom(_, _)
SplitFrom(buf, cursor) ==
    IF cursor = Len(buf) THEN [error |-> "none", spans |-> <<>>]
    ELSE IF Len(buf) - cursor < 2 THEN [error |-> "TruncatedLengthPrefix", spans |-> <<>>]
    ELSE LET n == buf[cursor + 1] + 256 * buf[cursor + 2]
         IN  IF n < 2 \/ cursor + n > Len(buf)
             THEN [error |-> "MalformedChunk", spans |-> <<>>]
             ELSE LET rest == SplitFrom(buf, cursor + n)
                  IN  [error |-> rest.error, spans |-> <<<<cursor, n>>>> \o rest.spans]

Split(buf) == SplitFrom(buf, 0)

ValidFile(buf) == Split(buf).error = "none"

SpanBytes(buf, span) == SubSeq(buf, span[1] + 1, span[1] + span[2])

AllDecode(buf) == \A i \in 1..Len(Split(buf).spans) : ParseRaw(SpanBytes(buf, Split(buf).spans[i])).ok

RECURSIVE SumSizes(_)
SumSizes(calls) == IF calls = <<>> THEN 0 ELSE Head(calls).chunk_size + SumSizes(Tail(calls))

\* The chunk bodies handed to the decoder are consecutive spans from offset 0,
\* each [cursor, cursor + n) in full.
Consecutive(calls, buf) ==
    /\ calls # <<>> => calls[1].cursor = 0
    /\ \A i \in 1..Len(calls) :
          /\ calls[i].body = SubSeq(buf, calls[i].cursor + 1, calls[i].cursor + calls[i].chunk_size)
          /\ Len(calls[i].body) = calls[i].chunk_size
          /\ i < Len(calls) => calls[i + 1].cursor = calls[i].cursor + calls[i].chunk_size

\* The slot that read the file has returned or died.
LoadEnded == pc # "loop"

\* ------------------------------------------------------------ claims on one load

\* C1 (as claimed): for every buffer on which chunk splitting fails, the load
\* reports an error and leaves no record: spectra_list never holds the records
\* decoded before the failure.
C1_FailFastLeavesNoRecords ==
    (LoadEnded /\ ~ValidFile(raw)) => (err # "none" /\ spectra_list = <<>>)

\* C2: the chunk loop terminates for every buffer, also when a length prefix is
\* 0 or 1 or overshoots the buffer end: the slot always leaves the loop.
C2_LoopTerminates == <>(pc # "loop")

\* A load that has ended with the cursor beyond the buffer end: an overshooting
\* chunk was decoded and the loop went on.
C2_Witness == LoadEnded /\ byte_pointer > Len(raw)

\* The cap on the records of LoopIter is never what stops the loop.
CapNotReached == pc = "loop" => Len(spectra_list) < MaxRecords

\* C3 (as claimed): a chunk whose length prefix n has n < 2 or cursor + n beyond
\* the buffer end is never handed to the decoder (and so never truncated to the
\* bytes available).
C3_MalformedChunkNotDecoded ==
    \A i \in 1..Len(handed) :
        /\ handed[i].chunk_size >= 2
        /\ handed[i].cursor + handed[i].chunk_size <= Len(raw)

\* C4 (as claimed): for every valid file (every length prefix n >= 2 and every
\* chunk inside the buffer) the spans tile the buffer, the loop stops exactly
\* when the cursor equals the buffer length, and the chunk lengths add up to
\* the file size.
C4_ValidFileTiled ==
    (LoadEnded /\ ValidFile(raw)) =>
        /\ Consecutive(handed, raw)
        /\ byte_pointer = Len(raw)
        /\ SumSizes(handed) = Len(raw)

\* C4 (amended): the same for every valid file whose chunks all decode; when a
\* chunk of a valid file does not decode, the load stops at that chunk with the
\* decoder's error and the spans handed over so far tile the buffer up to the
\* end of that chunk.
C4_DecodableFileTiled ==
    /\ (LoadEnded /\ ValidFile(raw) /\ AllDecode(raw)) =>
          /\ Consecutive(handed, raw)
          /\ byte_pointer = Len(raw)
          /\ SumSizes(handed) = Len(raw)
          /\ Len(handed) = Len(Split(raw).spans)
    /\ (LoadEnded /\ ValidFile(raw) /\ ~AllDecode(raw)) =>
          /\ err \in {"InsufficientBytes", "UnknownEnumValue"}
          /\ Consecutive(handed, raw)
          /\ handed # <<>>
          /\ byte_pointer = handed[Len(handed)].cursor
          /\ ~ParseRaw(handed[Len(handed)].body).ok

\* A valid file of two chunks, both decoded, after its load.
C4_Witness == LoadEnded /\ ValidFile(raw) /\ AllDecode(raw) /\ Len(handed) = 2

\* C5: with exactly one byte left at the cursor the load ends with the error of
\* the length-prefix read (struct.error): no length is read from the partial
\* prefix, nothing at that cursor reaches the decoder, the load does not end
\* normally and no row is listed.
C5_TruncatedPrefixIsError ==
    (LoadEnded /\ Len(raw) - byte_pointer = 1) =>
        /\ err = "struct.error"
        /\ \A i \in 1..Len(handed) : handed[i].cursor # byte_pointer
        /\ spectraListModel = <<>>

\* A load that stopped one byte before the end, after a decoded chunk.
C5_Witness == LoadEnded /\ Len(raw) - byte_pointer = 1 /\ byte_pointer > 0

\* A load that ran to its normal end.
Loaded == pc = "idle" /\ err = "none"

\* C8: after a successful load of a file of k chunks the record list has k
\* elements, the i-th being the decode of the i-th chunk span; the i-th row is
\* numbered i (counting from 1), and the row that is current is the record
\* that is plotted.
C8_RecordsInFileOrder ==
    Loaded =>
        LET spans == Split(raw).spans
        IN  /\ ValidFile(raw)
            /\ Len(spectra_list) = Len(spans)
            /\ \A i \in 1..Len(spans) :
                  spectra_list[i] = ParseRaw(SpanBytes(raw, spans[i])).spectrum
            /\ Len(spectraListModel) = Len(spans)
            /\ \A i \in 1..Len(spans) :
                  /\ spectraListModel[i].number = i
                  /\ spectraListModel[i].radiometer = spectra_list[i].radiometer
            /\ spans # <<>> =>
                  /\ spectraCurrent \in 0..(Len(spans) - 1)
                  /\ plotted_spec = spectra_list[spectraCurrent + 1]
                  /\ canvas.spectrum = spectra_list[spectraCurrent + 1]
                  /\ plotted_spectrum_number = spectraCurrent + 1

\* Two different records loaded, the second row selected and plotted.
C8_Witness ==
    /\ Loaded
    /\ Len(spectra_list) = 2
    /\ spectra_list[1] # spectra_list[2]
    /\ spectraCurrent = 1

\* ------------------------------------------------------------ claims on the window

\* A record can still be drawn: a row of the spectra list can be selected, or
\* the wavelength-scale checkbox (which replots self.plotted_spec) is enabled.
PlottedReachable == wlScale_enabled /\ plotted_src # NoFile

\* C6 (as claimed): once a sequence selection has been handled, the record list
\* holds only records decoded from the selected file, and no record of an
\* earlier file can still be plotted.
C6_OnlyRecordsOfSelectedFile ==
    (pc = "idle" /\ selected_file # NoFile) =>
        /\ spectra_list # <<>> => list_src = selected_file
        /\ PlottedReachable => plotted_src = selected_file

\* C7 (as claimed): a record of a channel without a coefficient vector (any
\* channel but VIS and SWIR) is plotted over the raw pixel index, and each
\* coefficient vector is applied to records of its own channel only.
C7_NoForeignCoefficients ==
    canvas.kind = "spectrum" =>
        /\ canvas.spectrum.radiometer \notin {"VIS", "SWIR"} =>
              (canvas.coefs = "none" /\ canvas.x = Range(canvas.spectrum.pixel_count))
        /\ canvas.coefs = "wlcoefs_s" => canvas.spectrum.radiometer = "SWIR"
        /\ canvas.coefs = "wlcoefs_v" => canvas.spectrum.radiometer = "VIS"

\* C9 (as claimed): whenever the save button is enabled, the plotted record is
\* an element of the record list decoded from the selected sequence and
\* plotted_spectrum_number is its position in that list.
C9_SaveNamesShownSpectrum ==
    (pc = "idle" /\ saveButton_enabled) =>
        /\ list_src = selected_file
        /\ plotted_src = selected_file
        /\ plotted_spectrum_number \in 1..Len(spectra_list)
        /\ spectra_list[plotted_spectrum_number] = plotted_spec

\* C10 (as claimed): a listed name is handled by the rule that listed it: a
\* name matching *.spe is read and decoded, and only a name matching *.jpg
\* takes the image branch.
C10_HandledAsListed ==
    selected_file # NoFile =>
        /\ EndsWith(selected_seq_name, SpeSuffix) => branch = "spectra"
        /\ branch = "image" => EndsWith(selected_seq_name, JpgSuffix)

====
